---- MODULE Spec2Model ----
(***************************************************************************)
(* Model of the colour sandbox of the RGB -> CMYK guide                    *)
(* (src/unnamed/part_000).                                                 *)
(*                                                                         *)
(* Strings are sequences of one-character strings.                         *)
(*                                                                         *)
(* JavaScript numbers are modelled as decimal fixed-point integers, every  *)
(* arithmetic operation rounding its exact result to the nearest unit (as  *)
(* IEEE-754 rounds each operation to the nearest double):                  *)
(*   - the hex -> Lab -> intent -> linear RGB chain counts in units of     *)
(*     1/Scale (1e-7), which leaves room for Lab values up to +-214;       *)
(*   - the CMYK codec, whose values stay within [-2, 2] and whose          *)
(*     threshold is 1e-6, counts in units of 1/Fine (1e-9).                *)
(* TLC integers are 32 bits wide, so products are formed limb by limb.     *)
(***************************************************************************)
EXTENDS Integers, Sequences, FiniteSets, TLC

VARIABLES
  present,     \* ids of the sandbox elements that exist in the document
  loaded,      \* DOMContentLoaded has been dispatched
  value,       \* #hexInput.value
  swatch,      \* #liveSwatch.style.background
  rows,        \* children of "#intentTable tbody", in document order
  clickL,      \* click listeners registered on #convertBtn, in order
  keyL,        \* keydown listeners registered on #hexInput, in order
  thrown,      \* a handler has ended in an uncaught exception
  evals,       \* locals of the last update() call: hex, base, the five passes
  hexArg,      \* argument of a direct hexToRgb call
  hexRes,      \* its result
  numArg,      \* a direct call of a numeric function: its name and argument
  numRes,      \* its result
  returned,    \* the direct call has returned
  theme,       \* the theme of the page: <html data-theme>, localStorage
               \* 'theme', the OS preference, the two controls, the listeners
  toc          \* the elements of the document that carry ids, and the headings

vars == <<present, loaded, value, swatch, rows, clickL, keyL, thrown, evals,
          hexArg, hexRes, numArg, numRes, returned, theme, toc>>

pageVars == <<present, loaded, value, swatch, rows, clickL, keyL, thrown, evals>>
callVars == <<hexArg, hexRes, numArg, numRes, returned>>
siteVars == <<theme, toc>>

(***************************************************************************)
(* Fixed-point arithmetic                                                  *)
(***************************************************************************)
Scale == 10 * 1000 * 1000
Fine == 1000 * 1000 * 1000

\* The result of a division by zero (JavaScript's NaN or Infinity): a value
\* that lies in no interval.
NonFinite == 0 - 2147483647

Abs(a) == IF a < 0 THEN -a ELSE a
Sgn(a) == IF a < 0 THEN -1 ELSE 1
Min2(a, b) == IF a <= b THEN a ELSE b
Max2(a, b) == IF a >= b THEN a ELSE b

\* const x = v; ...: what F makes of the value of v, v being computed first.
Let(v, F(_)) == IF v = v THEN F(v) ELSE F(v)

\* The three components F(1), F(2), F(3) of a triplet.
Map3(F(_)) == <<F(1), F(2), F(3)>>

\* <<q, r>> with ra * b = q * c + r and 0 <= r < c, for 0 <= ra < c <= 1e8,
\* b taken apart in the largest base B that keeps every sum below 2^31.
RECURSIVE QuoRem10(_, _, _)
QuoRem10(ra, b, c) ==
  IF b = 0 THEN <<0, 0>>
  ELSE LET B == IF c <= Scale THEN 100 ELSE 10
           p == QuoRem10(ra, b \div B, c)
           t == p[2] * B + ra * (b % B)
       IN <<p[1] * B + t \div c, t % c>>

\* a * b / c for a, b >= 0 and 0 < c <= 1e8: rounded to the nearest integer
\* (ties away from zero), or rounded down when down is TRUE.
MulDivN(a, b, c, down) ==
  LET p == QuoRem10(a % c, b, c)
  IN (a \div c) * b + p[1] + (IF ~down /\ 2 * p[2] >= c THEN 1 ELSE 0)

MulDiv(a, b, c) ==
  IF c = 0 THEN NonFinite
  ELSE Sgn(a) * Sgn(b) * Sgn(c) * MulDivN(Abs(a), Abs(b), Abs(c), FALSE)

\* Product and quotient of two numbers counted in 1/Scale.
Mul(a, b) == MulDiv(a, b, Scale)
Div(a, b) == MulDiv(a, Scale, b)

\* a * b / Fine for 0 <= a, b < 2^31, in limbs of three decimal digits:
\* rounded to the nearest integer, or rounded down when down is TRUE.
MulFN(a, b, down) ==
  LET a2 == a \div 1000000
      a1 == (a \div 1000) % 1000
      a0 == a % 1000
      b2 == b \div 1000000
      b1 == (b \div 1000) % 1000
      b0 == b % 1000
      T3 == a2 * b1 + a1 * b2
      T2 == a2 * b0 + a1 * b1 + a0 * b2
      T1 == a1 * b0 + a0 * b1
      T0 == a0 * b0
      half == IF down THEN 0 ELSE 500
  IN a2 * b2 * 1000 + T3 + ((T2 + half + ((T1 + (T0 \div 1000)) \div 1000)) \div 1000)

\* Product of two numbers counted in 1/Fine.
MulF(a, b) == Sgn(a) * Sgn(b) * MulFN(Abs(a), Abs(b), FALSE)

\* <<q, r>> with x + y = q * c + r and 0 <= r < c, for 0 <= x, y < c < 2^31,
\* without ever forming a sum above c.
AddMod(x, y, c) == IF x >= c - y THEN <<1, x - (c - y)>> ELSE <<0, x + y>>

\* <<10 * q + d, r'>> for st = <<q, r>> and 10 * r = d * b + r', 0 <= r, r' < b:
\* one more decimal digit of a quotient by b.
DigitStep(st, b) ==
  LET r2 == AddMod(st[2], st[2], b)
      r4 == AddMod(r2[2], r2[2], b)
      r5 == AddMod(r4[2], st[2], b)
      r10 == AddMod(r5[2], r5[2], b)
  IN <<st[1] * 10 + 2 * (2 * r2[1] + r4[1] + r5[1]) + r10[1], r10[2]>>

\* k more decimal digits.
RECURSIVE DivDigits(_, _, _)
DivDigits(st, b, k) ==
  IF k = 0 THEN st ELSE DigitStep(DivDigits(st, b, k - 1), b)

\* a * Fine / b for a >= 0 and 0 < b < 2^30, rounded to the nearest integer.
DivFN(a, b) ==
  LET st == DivDigits(<<a \div b, a % b>>, b, 9)
  IN st[1] + (IF st[2] >= b - st[2] THEN 1 ELSE 0)

\* Quotient of two numbers counted in 1/Fine; x/0 is not finite.
DivF(a, b) ==
  IF b = 0 THEN NonFinite
  ELSE Sgn(a) * Sgn(b) * DivFN(Abs(a), Abs(b))

\* Product of two numbers counted in 1/s.
Times(s, a, b) == IF s = Fine THEN MulF(a, b) ELSE MulDiv(a, b, s)

\* y^n for n >= 1, in units of 1/s.
RECURSIVE IPow(_, _, _)
IPow(s, y, n) == IF n = 1 THEN y ELSE Times(s, IPow(s, y, n - 1), y)

\* y^n for y >= 0, every product rounded down.
TimesDown(s, a, b) == IF s = Fine THEN MulFN(a, b, TRUE) ELSE MulDivN(a, b, s, TRUE)
RECURSIVE IPowDown(_, _, _)
IPowDown(s, y, n) == IF n = 1 THEN y ELSE TimesDown(s, IPowDown(s, y, n - 1), y)

\* The least y in r[1]..r[2] with y^n >= v lies in the result (y |-> y^n is
\* non-decreasing): k halvings of the interval r.
RECURSIVE Narrow(_, _, _, _, _)
Narrow(s, v, n, r, k) ==
  IF k = 0 \/ r[1] >= r[2] THEN r
  ELSE LET mid == r[1] + ((r[2] - r[1]) \div 2)
       IN Narrow(s, v, n,
                 IF IPowDown(s, mid, n) >= v THEN <<r[1], mid>> ELSE <<mid + 1, r[2]>>,
                 k - 1)

\* The least y in r[1]..r[2] with y^n >= v.
RECURSIVE Bisect(_, _, _, _)
Bisect(s, v, n, r) ==
  IF r[1] >= r[2] THEN r[2] ELSE Bisect(s, v, n, Narrow(s, v, n, r, 4))

\* The n-th root of v in units of 1/s (0 for v <= 0).
Root(s, v, n) == IF v <= 0 THEN 0 ELSE Bisect(s, v, n, <<0, Max2(v, s)>>)

\* Math.pow(v, 2.4) = v^2 * (v^(1/5))^2 and
\* Math.pow(v, 1/2.4) = (((v^(1/2))^(1/2))^(1/3))^5, for v >= 0.
Pow12_5(s, v) ==
  Times(s, Times(s, v, v), Let(Root(s, v, 5), LAMBDA r : Times(s, r, r)))
Pow5_12(s, v) ==
  Let(Root(s, Root(s, Root(s, v, 2), 2), 3), LAMBDA r : IPow(s, r, 5))

\* Math.cbrt(v)
Cbrt(s, v) == Sgn(v) * Root(s, Abs(v), 3)

\* Math.min(Math.max(v, lo), hi)
clamp(v, lo, hi) == Min2(Max2(v, lo), hi)

(***************************************************************************)
(* Strings                                                                 *)
(***************************************************************************)
HexChars == <<"0", "1", "2", "3", "4", "5", "6", "7", "8", "9",
              "a", "b", "c", "d", "e", "f">>
UpperHexChars == <<"0", "1", "2", "3", "4", "5", "6", "7", "8", "9",
                   "A", "B", "C", "D", "E", "F">>

\* What String.prototype.trim removes (white space and line terminators).
WhiteSpace == {" ", "\t", "\n", "\r"}

\* [a-f\d] under the i flag
IsHexDigit(ch) ==
  \E d \in 1..16 : ch = HexChars[d] \/ ch = UpperHexChars[d]

\* parseInt(ch, 16) of one hexadecimal digit
HexDigitValue(ch) ==
  (CHOOSE d \in 1..16 : ch = HexChars[d] \/ ch = UpperHexChars[d]) - 1

\* String.prototype.trim
RECURSIVE TrimStart(_)
TrimStart(s) ==
  IF s # <<>> /\ Head(s) \in WhiteSpace THEN TrimStart(Tail(s)) ELSE s
RECURSIVE TrimEnd(_)
TrimEnd(s) ==
  IF s # <<>> /\ s[Len(s)] \in WhiteSpace
  THEN TrimEnd(SubSeq(s, 1, Len(s) - 1)) ELSE s
Trim(s) == TrimEnd(TrimStart(s))

\* String.prototype.startsWith('#')
StartsWithHash(s) == s # <<>> /\ Head(s) = "#"

\* The null of a failed match, of hexToRgb and of hexToLabD50, and the test
\* !x that the code applies to such a result.
null == <<>>
IsNull(x) == DOMAIN x = {}

(***************************************************************************)
(* hexToRgb                                                                *)
(***************************************************************************)
\* The pattern without its closing $: what follows the six digits is ignored.
HexMatchUnanchored(s) ==
  LET body == IF StartsWithHash(s) THEN Tail(s) ELSE s
  IN IF Len(body) >= 6 /\ \A i \in 1..6 : IsHexDigit(body[i])
     THEN SubSeq(body, 1, 6) ELSE null

\* /^#?([a-f\d]{2})([a-f\d]{2})([a-f\d]{2})$/i.exec(s): the six digits
\* matched by the three groups, or null.
HexMatch(s) ==
  LET body == IF StartsWithHash(s) THEN Tail(s) ELSE s
  IN IF Len(body) = 6 /\ \A i \in 1..6 : IsHexDigit(body[i])
     THEN body ELSE null

\* parseInt(pair, 16) of a two-digit group
ParseByte(pair) == 16 * HexDigitValue(pair[1]) + HexDigitValue(pair[2])

\* Parse #RRGGBB into a normalized sRGB triplet; null on invalid.
hexToRgb(hex) ==
  Let(HexMatch(Trim(hex)), LAMBDA m :
      IF IsNull(m) THEN null
      ELSE Map3(LAMBDA i : MulDiv(ParseByte(SubSeq(m, 2 * i - 1, 2 * i)), Scale, 255)))

(***************************************************************************)
(* Transfer functions, matrices, chromatic adaptation, Lab                 *)
(* (numbers in units of 1/Scale)                                           *)
(***************************************************************************)
\* (c <= 0.04045) ? (c/12.92) : Math.pow((c+0.055)/1.055, 2.4)
srgbToLinear(c) ==
  IF c <= 404500 THEN MulDiv(c, 100, 1292)
  ELSE Pow12_5(Scale, MulDiv(c + 550000, 1000, 1055))

mul3x3(a, b) ==
  Map3(LAMBDA i : Mul(a[i][1], b[1]) + Mul(a[i][2], b[2]) + Mul(a[i][3], b[3]))

\* Bradford cone-response matrix and its stored inverse
M == << << 8951000,  2664000, -1614000>>,
        <<-7502000, 17135000,   367000>>,
        <<  389000,  -685000, 10296000>> >>
Mi == << <<9869929, -1470543, 1599627>>,
         <<4323053,  5183603,  492912>>,
         << -85287,   400428, 9684867>> >>
\* Reference whites
D65 == <<9504700, 10000000, 10888300>>
D50 == <<9642200, 10000000,  8252100>>

adaptD65toD50(XYZ) ==
  LET LMS == mul3x3(M, XYZ)
      LMS_w_src == mul3x3(M, D65)
      LMS_w_dst == mul3x3(M, D50)
      scale == Map3(LAMBDA i : Div(LMS_w_dst[i], LMS_w_src[i]))
      LMS_c == Map3(LAMBDA i : Mul(LMS[i], scale[i]))
  IN mul3x3(Mi, LMS_c)

\* adaptD50toD65 with the whites of adaptD65toD50 left as they were.
adaptD50toD65_WhitesNotSwapped(XYZ) ==
  LET LMS == mul3x3(M, XYZ)
      LMS_w_src == mul3x3(M, D65)
      LMS_w_dst == mul3x3(M, D50)
      scale == Map3(LAMBDA i : Div(LMS_w_dst[i], LMS_w_src[i]))
      LMS_c == Map3(LAMBDA i : Mul(LMS[i], scale[i]))
  IN mul3x3(Mi, LMS_c)

adaptD50toD65(XYZ) ==
  LET LMS == mul3x3(M, XYZ)
      LMS_w_src == mul3x3(M, D50)
      LMS_w_dst == mul3x3(M, D65)
      scale == Map3(LAMBDA i : Div(LMS_w_dst[i], LMS_w_src[i]))
      LMS_c == Map3(LAMBDA i : Mul(LMS[i], scale[i]))
  IN mul3x3(Mi, LMS_c)

M_srgb_to_xyz == << <<4124564, 3575761, 1804375>>,
                    <<2126729, 7151522,  721750>>,
                    << 193339, 1191920, 9503041>> >>
M_xyz_to_srgb == << <<32404542, -15371385, -4985314>>,
                    <<-9692660,  18760108,   415560>>,
                    <<  556434,  -2040259, 10572252>> >>

\* t > eps with eps = 216/24389, decided exactly for t in units of 1/Scale
AboveEps(t) == t > MulDivN(216, Scale, 24389, TRUE)

\* t > eps ? Math.cbrt(t) : (k*t + 16)/116, with k = 24389/27
f_lab(t) ==
  IF AboveEps(t) THEN Cbrt(Scale, t)
  ELSE MulDiv(MulDiv(t, 24389, 27) + 16 * Scale, 1, 116)

\* f = [fx, fy, fz], the images under f_lab of xr, yr, zr
xyzD50_to_lab(XYZ) ==
  Let(Map3(LAMBDA i : f_lab(Div(XYZ[i], D50[i]))), LAMBDA f :
      <<116 * f[2] - 16 * Scale, 500 * (f[1] - f[2]), 200 * (f[2] - f[3])>>)

\* finv_lab with t, not t3, compared with eps.
finv_lab_ComparesT(t) ==
  Let(Mul(Mul(t, t), t), LAMBDA t3 :
      IF AboveEps(t) THEN t3 ELSE MulDiv(116 * t - 16 * Scale, 27, 24389))

\* t3 = t*t*t; t3 > eps ? t3 : (116*t - 16)/k
finv_lab(t) ==
  Let(Mul(Mul(t, t), t), LAMBDA t3 :
      IF AboveEps(t3) THEN t3 ELSE MulDiv(116 * t - 16 * Scale, 27, 24389))

\* f = [fx, fy, fz]
lab_to_xyzD50(Lab) ==
  Let(MulDiv(Lab[1] + 16 * Scale, 1, 116), LAMBDA fy :
  Let(<<fy + MulDiv(Lab[2], 1, 500), fy, fy - MulDiv(Lab[3], 1, 200)>>, LAMBDA f :
      Map3(LAMBDA i : Mul(finv_lab(f[i]), D50[i]))))

(***************************************************************************)
(* CMYK codec (numbers in units of 1/Fine)                                 *)
(***************************************************************************)
\* A number counted in 1/Scale, counted in 1/Fine.
ToFine(v) == v * (Fine \div Scale)

\* (c <= 0.0031308) ? (12.92*c) : (1.055*Math.pow(c,1/2.4)-0.055), clamped to
\* [0,1]: the expression rgbLinear_to_cmyk applies to each channel.
encodeChannel(c) ==
  clamp(IF c <= 3130800 THEN MulDiv(c, 1292, 100)
        ELSE MulDiv(Pow5_12(Fine, c), 1055, 1000) - 55000000,
        0, Fine)

\* rgbLinear_to_cmyk with K: 0 in the result of the threshold branch.
rgbLinear_to_cmyk_BlackAsK0(lin) ==
  Let(Map3(LAMBDA i : Fine - encodeChannel(lin[i])), LAMBDA CMY0 :
  Let(Min2(CMY0[1], Min2(CMY0[2], CMY0[3])), LAMBDA K :
      IF K >= Fine - 1000 THEN [C |-> 0, M |-> 0, Y |-> 0, K |-> 0]
      ELSE [C |-> DivF(CMY0[1] - K, Fine - K),
            M |-> DivF(CMY0[2] - K, Fine - K),
            Y |-> DivF(CMY0[3] - K, Fine - K),
            K |-> K]))

\* rgbLinear_to_cmyk without its threshold branch.
rgbLinear_to_cmyk_NoThreshold(lin) ==
  Let(Map3(LAMBDA i : Fine - encodeChannel(lin[i])), LAMBDA CMY0 :
  Let(Min2(CMY0[1], Min2(CMY0[2], CMY0[3])), LAMBDA K :
      [C |-> DivF(CMY0[1] - K, Fine - K),
       M |-> DivF(CMY0[2] - K, Fine - K),
       Y |-> DivF(CMY0[3] - K, Fine - K),
       K |-> K]))

\* CMY0 = [C0, M0, Y0] = [1 - sr, 1 - sg, 1 - sb]
rgbLinear_to_cmyk(lin) ==
  Let(Map3(LAMBDA i : Fine - encodeChannel(lin[i])), LAMBDA CMY0 :
  Let(Min2(CMY0[1], Min2(CMY0[2], CMY0[3])), LAMBDA K :
      IF K >= Fine - 1000 THEN [C |-> 0, M |-> 0, Y |-> 0, K |-> Fine]
      ELSE [C |-> DivF(CMY0[1] - K, Fine - K),
            M |-> DivF(CMY0[2] - K, Fine - K),
            Y |-> DivF(CMY0[3] - K, Fine - K),
            K |-> K]))

\* cmyk_to_rgb without the factor (1 - K).
cmyk_to_rgb_WithoutK(cmyk) == <<Fine - cmyk.C, Fine - cmyk.M, Fine - cmyk.Y>>

cmyk_to_rgb(cmyk) ==
  <<MulF(Fine - cmyk.C, Fine - cmyk.K),
    MulF(Fine - cmyk.M, Fine - cmyk.K),
    MulF(Fine - cmyk.Y, Fine - cmyk.K)>>

(***************************************************************************)
(* Rendering intents (Lab in units of 1/Scale)                             *)
(***************************************************************************)
intent_perceptual(Lab) ==
  <<MulDiv(Lab[1], 96, 100) + 9000000, MulDiv(Lab[2], 96, 100), MulDiv(Lab[3], 93, 100)>>
\* intent_saturation with the offset of intent_perceptual.
intent_saturation_Offset09(Lab) ==
  <<MulDiv(Lab[1], 96, 100) + 9000000, MulDiv(Lab[2], 109, 100), MulDiv(Lab[3], 108, 100)>>
intent_saturation(Lab) ==
  <<MulDiv(Lab[1], 96, 100) + 11000000, MulDiv(Lab[2], 109, 100), MulDiv(Lab[3], 108, 100)>>
intent_relative(Lab) ==
  <<MulDiv(Lab[1], 96, 100) + 9000000, MulDiv(Lab[2], 109, 100), MulDiv(Lab[3], 108, 100)>>
intent_absolute(Lab) ==
  <<MulDiv(Lab[1], 111, 100) + 2000000, MulDiv(Lab[2], 117, 100), MulDiv(Lab[3], 105, 100)>>
\* A copy with a written where b belongs.
intent_naive_RepeatsA(Lab) == <<Lab[1], Lab[2], Lab[2]>>
\* Lab.slice()
intent_naive(Lab) == [i \in 1..Len(Lab) |-> Lab[i]]

(***************************************************************************)
(* Pipeline                                                                *)
(***************************************************************************)
hexToLabD50(hex) ==
  Let(hexToRgb(hex), LAMBDA rgb :
      IF IsNull(rgb) THEN null
      ELSE Let(Map3(LAMBDA i : srgbToLinear(rgb[i])), LAMBDA lin :
           Let(mul3x3(M_srgb_to_xyz, lin), LAMBDA XYZd65 :
           Let(adaptD65toD50(XYZd65), LAMBDA XYZd50 :
               [lin |-> lin, XYZd65 |-> XYZd65, XYZd50 |-> XYZd50,
                Lab |-> xyzD50_to_lab(XYZd50)]))))

labToLinearRgbViaD50(Lab) ==
  LET XYZd50 == lab_to_xyzD50(Lab)
      XYZd65 == adaptD50toD65(XYZd50)
      lin == mul3x3(M_xyz_to_srgb, XYZd65)
  IN Map3(LAMBDA i : clamp(lin[i], 0, Scale))

(***************************************************************************)
(* Formatting                                                              *)
(***************************************************************************)
\* Math.round(v*255) for v >= 0 in units of 1/Fine
RoundTimes255(v) == MulFN(v, 255, FALSE)

\* Number.prototype.toString(16) of an integer n >= 0
RECURSIVE toString16(_)
toString16(n) ==
  IF n < 16 THEN <<HexChars[n + 1]>>
  ELSE toString16(n \div 16) \o <<HexChars[(n % 16) + 1]>>

\* String.prototype.slice(-2)
SliceLast2(s) == IF Len(s) <= 2 THEN s ELSE SubSeq(s, Len(s) - 1, Len(s))

\* Math.round(v*255).toString(16), the '0' in front forgotten.
HexPairUnpadded(v) == toString16(RoundTimes255(v))

\* ('0'+Math.round(v*255).toString(16)).slice(-2)
HexPair(v) == SliceLast2(<<"0">> \o toString16(RoundTimes255(v)))

\* '#'+dispRGB.map(...).join('')
FormatHex(dispRGB) ==
  <<"#">> \o HexPair(dispRGB[1]) \o HexPair(dispRGB[2]) \o HexPair(dispRGB[3])

\* The decimal digits of an integer n >= 0
RECURSIVE Digits(_)
Digits(n) ==
  IF n < 10 THEN <<HexChars[n + 1]>>
  ELSE Digits(n \div 10) \o <<HexChars[(n % 10) + 1]>>

\* Number.prototype.toFixed(1) of x in units of 1/Scale
toFixed1(x) ==
  Let(MulDivN(Abs(x), 10, Scale, FALSE), LAMBDA n :
      (IF x < 0 THEN <<"-">> ELSE <<>>) \o Digits(n \div 10) \o <<".">> \o Digits(n % 10))

\* `L ${Lab[0].toFixed(1)}, a ${Lab[1].toFixed(1)}, b ${Lab[2].toFixed(1)}`
fmtLab(Lab) ==
  <<"L", " ">> \o toFixed1(Lab[1]) \o <<",", " ", "a", " ">> \o toFixed1(Lab[2])
    \o <<",", " ", "b", " ">> \o toFixed1(Lab[3])

(***************************************************************************)
(* update: render the table for all intents and set the live swatch        *)
(***************************************************************************)
\* The table with Saturation ahead of Relative colorimetric.
intentsSaturationSecond ==
  << [name |-> "Perceptual",            fn |-> "intent_perceptual"],
     [name |-> "Saturation",            fn |-> "intent_saturation"],
     [name |-> "Relative colorimetric", fn |-> "intent_relative"],
     [name |-> "Absolute colorimetric", fn |-> "intent_absolute"],
     [name |-> "Naive math",            fn |-> "intent_naive"] >>

\* The intents table of update, in its order.
intents ==
  << [name |-> "Perceptual",            fn |-> "intent_perceptual"],
     [name |-> "Relative colorimetric", fn |-> "intent_relative"],
     [name |-> "Saturation",            fn |-> "intent_saturation"],
     [name |-> "Absolute colorimetric", fn |-> "intent_absolute"],
     [name |-> "Naive math",            fn |-> "intent_naive"] >>

\* entry.fn(Lab)
CallIntent(fn, Lab) ==
  CASE fn = "intent_perceptual" -> intent_perceptual(Lab)
    [] fn = "intent_relative"   -> intent_relative(Lab)
    [] fn = "intent_saturation" -> intent_saturation(Lab)
    [] fn = "intent_absolute"   -> intent_absolute(Lab)
    [] fn = "intent_naive"      -> intent_naive(Lab)

\* The locals of one pass of the forEach callback of update.
renderIntent(entry, base) ==
  Let(CallIntent(entry.fn, base.Lab), LAMBDA Lab_t :
  Let(labToLinearRgbViaD50(Lab_t), LAMBDA linRGB :
  Let(rgbLinear_to_cmyk(Map3(LAMBDA i : ToFine(linRGB[i]))), LAMBDA cmyk :
  Let(cmyk_to_rgb(cmyk), LAMBDA rgb :
  Let(Map3(LAMBDA i : clamp(rgb[i], 0, Fine)), LAMBDA dispRGB :
      [name |-> entry.name, Lab_t |-> Lab_t, linRGB |-> linRGB, cmyk |-> cmyk,
       dispRGB |-> dispRGB, hexOut |-> FormatHex(dispRGB)])))))

\* intents.forEach(...): the locals of the passes from the i-th on, in order.
RECURSIVE forEachIntent(_, _)
forEachIntent(base, i) ==
  IF i > Len(intents) THEN <<>>
  ELSE <<renderIntent(intents[i], base)>> \o forEachIntent(base, i + 1)

\* The <tr> the callback appends: the name cell, the swatch cell, the Lab cell.
TableRow(e) == [name |-> e.name, background |-> e.hexOut, lab |-> fmtLab(e.Lab_t)]

\* The rows of the last call are left in place.
clearTableKeepsRows(tbody) == tbody

\* tbody.innerHTML = ''
clearTable(tbody) == <<>>

\* intents.forEach(...): the rows appended to tbody, entry by entry.
RECURSIVE appendRows(_, _, _)
appendRows(tbody, es, i) ==
  IF i > Len(es) THEN tbody
  ELSE appendRows(Append(tbody, TableRow(es[i])), es, i + 1)

Elements == {"hexInput", "convertBtn", "tbody", "liveSwatch"}

\* The part of the page a handler reads and writes.
Dom == [swatch |-> swatch, rows |-> rows, clickL |-> clickL, keyL |-> keyL,
        evals |-> evals, thrown |-> thrown]

\* A TypeError (a member of null is used) ends the running handler.
Throw(d) == [d EXCEPT !.thrown = TRUE]

\* update with the live swatch painted ahead of the test of base.
updatePaintsFirst(d, hex) ==
  Let(hexToLabD50(hex), LAMBDA base :
      IF "liveSwatch" \notin present THEN Throw(d)
      ELSE IF IsNull(base)
      THEN [d EXCEPT !.swatch = hex, !.evals = [hex |-> hex, base |-> null, intents |-> <<>>]]
      ELSE IF "tbody" \notin present THEN Throw([d EXCEPT !.swatch = hex])
      ELSE Let(forEachIntent(base, 1), LAMBDA es :
               [d EXCEPT !.swatch = hex,
                         !.rows = appendRows(clearTable(d.rows), es, 1),
                         !.evals = [hex |-> hex, base |-> base, intents |-> es]]))

\* update(hex); evals keeps the locals of the call.
update(d, hex) ==
  Let(hexToLabD50(hex), LAMBDA base :
      IF IsNull(base) THEN [d EXCEPT !.evals = [hex |-> hex, base |-> null, intents |-> <<>>]]
      ELSE IF "liveSwatch" \notin present THEN Throw(d)
      ELSE IF "tbody" \notin present THEN Throw([d EXCEPT !.swatch = hex])
      ELSE Let(forEachIntent(base, 1), LAMBDA es :
               [d EXCEPT !.swatch = hex,
                         !.rows = appendRows(clearTable(d.rows), es, 1),
                         !.evals = [hex |-> hex, base |-> base, intents |-> es]]))

(***************************************************************************)
(* DOM wiring                                                              *)
(***************************************************************************)
\* The seed example colour, '#629c67'
Seed == <<"#", "6", "2", "9", "c", "6", "7">>

\* go: read the input, put a '#' in front when there is none, update.
go(d) ==
  IF "hexInput" \notin present THEN Throw(d)
  ELSE LET v == Trim(value)
           normalized == IF StartsWithHash(v) THEN v ELSE <<"#">> \o v
       IN update(d, normalized)

\* The DOMContentLoaded handler of the first copy of the script (no guard).
onLoadFirst(d) ==
  IF "convertBtn" \notin present THEN Throw(d)
  ELSE LET d1 == [d EXCEPT !.clickL = Append(@, "go")]
       IN IF "hexInput" \notin present THEN Throw(d1)
          ELSE update([d1 EXCEPT !.keyL = Append(@, "go")], Seed)

\* The DOMContentLoaded handler of the second copy (guarded).
onLoadSecond(d) ==
  IF Elements \subseteq present
  THEN update([d EXCEPT !.clickL = Append(@, "go"), !.keyL = Append(@, "go")], Seed)
  ELSE d

\* Every listener of a list runs, in registration order; an exception in one
\* does not keep the next from running.
RECURSIVE runListeners(_, _)
runListeners(d, n) == IF n = 0 THEN d ELSE go(runListeners(d, n - 1))

SetDom(d) ==
  /\ swatch' = d.swatch
  /\ rows' = d.rows
  /\ clickL' = d.clickL
  /\ keyL' = d.keyL
  /\ evals' = d.evals
  /\ thrown' = d.thrown

(***************************************************************************)
(* The sandbox page                                                        *)
(***************************************************************************)
\* A page without theme script and without headings.
SiteIdle ==
  /\ theme = [script |-> "none"]
  /\ toc = [script |-> "none"]

\* Number of strings of InputList a user may put into #hexInput.
NumInputs == 11

InputList ==
  << <<"#", "6", "2", "9", "c", "6", "7">>,
     <<"6", "2", "9", "C", "6", "7">>,
     <<" ", "6", "2", "9", "c", "6", "7", " ">>,
     <<"z", "z", "z", "z", "z", "z">>,
     <<"#", "1", "2", "3", "4", "5">>,
     <<>>,
     <<"1", "2", "3", "4", "5", "g">>,
     <<"#", "0", "0", "0", "0", "0", "0">>,
     <<"f", "f", "f", "f", "f", "f">>,
     <<"#", "F", "F", "F", "F", "F", "F">>,
     <<"#", "#", "6", "2", "9", "c", "6", "7">>,
     <<"F", "F", "0", "0", "0", "0">>,
     <<"#", "0", "0", "0", "0", "f", "f">>,
     <<"#", "0", "a", "0", "B", "0", "c">>,
     <<"1", "2", "3", "4", "5", "6", "7">>,
     <<"#", "8", "0", "8", "0", "8", "0">> >>

InputValues == {InputList[i] : i \in 1..Min2(NumInputs, Len(InputList))}

Keys == {"Enter", "a"}

Init ==
  /\ present = Elements
  /\ loaded = FALSE
  /\ value \in InputValues
  /\ swatch = <<>>
  /\ rows = <<>>
  /\ clickL = <<>>
  /\ keyL = <<>>
  /\ thrown = FALSE
  /\ evals = null
  /\ hexArg = <<>>
  /\ hexRes = null
  /\ numArg = <<>>
  /\ numRes = [op |-> "none"]
  /\ returned = FALSE
  /\ SiteIdle

\* DOMContentLoaded: both copies' handlers run, in script order.
Load ==
  /\ ~loaded
  /\ loaded' = TRUE
  /\ SetDom(onLoadSecond(onLoadFirst(Dom)))
  /\ UNCHANGED <<present, value, callVars, siteVars>>

\* The user edits #hexInput.
SetValue ==
  /\ "hexInput" \in present
  /\ \E v \in InputValues : value' = v
  /\ UNCHANGED <<present, loaded, swatch, rows, clickL, keyL, thrown, evals, callVars, siteVars>>

\* A click on #convertBtn: its click listeners run.
Click ==
  /\ "convertBtn" \in present
  /\ loaded
  /\ SetDom(runListeners(Dom, Len(clickL)))
  /\ UNCHANGED <<present, loaded, value, callVars, siteVars>>

\* A key goes down in #hexInput: its keydown listeners run, and each calls go
\* when the key is Enter.
Keydown ==
  /\ "hexInput" \in present
  /\ loaded
  /\ \E key \in Keys :
       SetDom(IF key = "Enter" THEN runListeners(Dom, Len(keyL)) ELSE Dom)
  /\ UNCHANGED <<present, loaded, value, callVars, siteVars>>

Next == Load \/ SetValue \/ Click \/ Keydown

Spec == Init /\ [][Next]_vars

\* The script included on a page that lacks at least one of the four elements.
InitAnyPage ==
  /\ present \in (SUBSET Elements) \ {Elements}
  /\ loaded = FALSE
  /\ value \in InputValues
  /\ swatch = <<>>
  /\ rows = <<>>
  /\ clickL = <<>>
  /\ keyL = <<>>
  /\ thrown = FALSE
  /\ evals = null
  /\ hexArg = <<>>
  /\ hexRes = null
  /\ numArg = <<>>
  /\ numRes = [op |-> "none"]
  /\ returned = FALSE
  /\ SiteIdle

SpecAnyPage == InitAnyPage /\ [][Next]_vars

\* The last call of update passed validation / was rejected.
Succeeded(ev) == ~IsNull(ev) /\ ~IsNull(ev.base)
Rejected(ev) == ~IsNull(ev) /\ IsNull(ev.base)

\* The names of a sequence of rows or results, in order.
NamesOf(seq) == [i \in 1..Len(seq) |-> seq[i].name]

\* The six digits of a valid hex string in lower case behind one '#': the
\* three channel bytes and nothing else.
LowerCase(ch) ==
  IF \E d \in 11..16 : ch = UpperHexChars[d]
  THEN HexChars[CHOOSE d \in 11..16 : ch = UpperHexChars[d]]
  ELSE ch
Canonical(hex) ==
  <<"#">> \o [i \in 1..6 |-> LowerCase(hex[Len(hex) - 6 + i])]

\* A page on which update has never run.
FreshDom ==
  [swatch |-> <<>>, rows |-> <<>>, clickL |-> <<>>, keyL |-> <<>>,
   evals |-> null, thrown |-> FALSE]

\* C2: a step whose call of update was given a string that fails validation
\* ran no numeric stage and wrote nothing: the live swatch and the rows of the
\* table are what they were before the step, and nothing was thrown.
C2_RejectedCallWritesNothing ==
  [][Rejected(evals')
       => /\ evals'.intents = <<>>
          /\ swatch' = swatch
          /\ rows' = rows
          /\ thrown' = thrown]_vars

\* update has rejected a string typed by the user while the table showed the
\* five rows of the seed colour.
C2_RejectedWithTableShown ==
  loaded /\ Rejected(evals) /\ evals.hex # <<>> /\ swatch = Seed /\ Len(rows) = 5

\* C3 as stated: a successful evaluation yields five results named Perceptual,
\* Relative colorimetric, Saturation, Absolute colorimetric, Naive, in this
\* order, and the table holds these five rows.
C3_AsStated ==
  (loaded /\ Succeeded(evals))
    => /\ NamesOf(evals.intents) = <<"Perceptual", "Relative colorimetric", "Saturation",
                                     "Absolute colorimetric", "Naive">>
       /\ NamesOf(rows) = NamesOf(evals.intents)

\* C3, amended: a successful evaluation has one base Lab and yields exactly
\* five results named Perceptual, Relative colorimetric, Saturation, Absolute
\* colorimetric, Naive math, in this order, each made from that base by the
\* function of its entry; the table then holds exactly the rows of these five
\* results in this order.
C3_FiveResultsInOrder ==
  (loaded /\ Succeeded(evals))
    => /\ NamesOf(evals.intents) = <<"Perceptual", "Relative colorimetric", "Saturation",
                                     "Absolute colorimetric", "Naive math">>
       /\ evals.intents[1].Lab_t = intent_perceptual(evals.base.Lab)
       /\ evals.intents[2].Lab_t = intent_relative(evals.base.Lab)
       /\ evals.intents[3].Lab_t = intent_saturation(evals.base.Lab)
       /\ evals.intents[4].Lab_t = intent_absolute(evals.base.Lab)
       /\ evals.intents[5].Lab_t = intent_naive(evals.base.Lab)
       /\ Len(rows) = 5
       /\ \A i \in 1..5 :
            /\ rows[i].name = evals.intents[i].name
            /\ rows[i].background = evals.intents[i].hexOut
            /\ rows[i].lab = fmtLab(evals.intents[i].Lab_t)

\* A colour typed by the user has been evaluated and the table shows its five
\* rows, the last one named Naive math.
C3_UserColourEvaluated ==
  /\ loaded /\ Succeeded(evals) /\ evals.hex # Seed
  /\ Len(rows) = 5 /\ rows[5].name = "Naive math"

\* C4: once the page is loaded, whatever calls of update were made, the table
\* holds exactly the five rows that one evaluation of the three bytes of the
\* most recent valid input (the colour of the live swatch) makes on a page
\* never used: the rows depend on neither the '#', the case of the digits,
\* the rows that were there nor the calls made before.
C4_RowsOfMostRecentValidInput ==
  loaded
    => /\ Len(rows) = 5
       /\ rows = update(FreshDom, Canonical(swatch)).rows

\* The most recent valid input was typed in upper case without '#', and a
\* rejected call came after it.
C4_UpperCaseThenRejected ==
  /\ loaded /\ Rejected(evals) /\ Len(rows) = 5
  /\ swatch = <<"#", "6", "2", "9", "C", "6", "7">>

\* C5: for every valid input and each of the five intents the display colour
\* is '#' and six lower-case hexadecimal digits, the k-th pair of them
\* writing n = round(clamp(channel k, 0, 1) * 255), a number of 0..255, in
\* two digits (the first a 0 when n < 16); the swatch of the row has it.
C5_DisplayColourWellFormed ==
  (loaded /\ Succeeded(evals))
    => \A i \in 1..Len(evals.intents) :
         LET e == evals.intents[i]
             rgb == cmyk_to_rgb(e.cmyk)
         IN /\ Len(e.hexOut) = 7
            /\ e.hexOut[1] = "#"
            /\ rows[i].background = e.hexOut
            /\ \A k \in 1..3 :
                 LET n == RoundTimes255(clamp(rgb[k], 0, Fine))
                 IN /\ n \in 0..255
                    /\ e.hexOut[2 * k] = HexChars[(n \div 16) + 1]
                    /\ e.hexOut[2 * k + 1] = HexChars[(n % 16) + 1]

\* A display colour with bytes below 16: black through the Naive math row.
C5_BytesBelow16 ==
  /\ loaded /\ Succeeded(evals) /\ Len(rows) = 5
  /\ rows[5].background = <<"#", "0", "0", "0", "0", "0", "0">>

\* C10 as stated: for #000000 every intent whose clamped linear RGB is (0,0,0)
\* yields CMYK (0,0,0,1), and for #ffffff every intent yields CMYK (0,0,0,0).
C10_AsStated ==
  (loaded /\ Succeeded(evals))
    => \A i \in 1..Len(evals.intents) :
         LET e == evals.intents[i]
         IN /\ (Canonical(evals.hex) = <<"#", "0", "0", "0", "0", "0", "0">>
                  /\ e.linRGB = <<0, 0, 0>>)
                 => e.cmyk = [C |-> 0, M |-> 0, Y |-> 0, K |-> Fine]
            /\ Canonical(evals.hex) = <<"#", "f", "f", "f", "f", "f", "f">>
                 => e.cmyk = [C |-> 0, M |-> 0, Y |-> 0, K |-> 0]

\* C10, amended: for #000000 every intent whose clamped linear RGB is (0,0,0)
\* yields CMYK exactly (0,0,0,1); for #ffffff every intent whose clamped
\* linear RGB is (1,1,1) yields C = M = Y = 0 and a K of at most 1e-6.
C10_AchromaticExtremes ==
  (loaded /\ Succeeded(evals))
    => \A i \in 1..Len(evals.intents) :
         LET e == evals.intents[i]
         IN /\ (Canonical(evals.hex) = <<"#", "0", "0", "0", "0", "0", "0">>
                  /\ e.linRGB = <<0, 0, 0>>)
                 => e.cmyk = [C |-> 0, M |-> 0, Y |-> 0, K |-> Fine]
            /\ (Canonical(evals.hex) = <<"#", "f", "f", "f", "f", "f", "f">>
                  /\ e.linRGB = <<Scale, Scale, Scale>>)
                 => /\ e.cmyk.C = 0 /\ e.cmyk.M = 0 /\ e.cmyk.Y = 0
                    /\ e.cmyk.K \in 0..1000

\* A pass over white whose clamped linear RGB is (1,1,1) has given K = 0.
C10_WhiteAtFullScale ==
  /\ loaded /\ Succeeded(evals)
  /\ Canonical(evals.hex) = <<"#", "f", "f", "f", "f", "f", "f">>
  /\ \E i \in 1..Len(evals.intents) :
       /\ evals.intents[i].linRGB = <<Scale, Scale, Scale>>
       /\ evals.intents[i].cmyk.K = 0

(***************************************************************************)
(* hexToRgb called on its own                                              *)
(***************************************************************************)
\* Largest number of hexadecimal digits in a generated argument.
MaxDigits == 7

\* The strings of at most n characters of an alphabet.
RECURSIVE Strings(_, _)
Strings(alphabet, n) ==
  IF n = 0 THEN {<<>>}
  ELSE LET S == Strings(alphabet, n - 1)
       IN S \cup {Append(t, ch) : t \in S, ch \in alphabet}

\* Arguments: up to MaxDigits digits of either case between up to two
\* characters that are no digits, and the strings of InputList.
HexArgs ==
  {pre \o body \o post : pre \in Strings({"#", " ", "g"}, 2),
                         body \in Strings({"c", "F"}, MaxDigits),
                         post \in Strings({"#", " ", "g"}, 2)}
    \cup {InputList[i] : i \in 1..Len(InputList)}

\* The page as it is before DOMContentLoaded, nothing typed.
PageIdle ==
  /\ present = Elements
  /\ loaded = FALSE
  /\ value = <<>>
  /\ swatch = <<>>
  /\ rows = <<>>
  /\ clickL = <<>>
  /\ keyL = <<>>
  /\ thrown = FALSE
  /\ evals = null

InitHex ==
  /\ PageIdle
  /\ hexArg \in HexArgs
  /\ hexRes = null
  /\ numArg = <<>>
  /\ numRes = [op |-> "none"]
  /\ returned = FALSE
  /\ SiteIdle

\* hexToRgb(hexArg)
CallHexToRgb ==
  /\ ~returned
  /\ hexRes' = hexToRgb(hexArg)
  /\ returned' = TRUE
  /\ UNCHANGED <<pageVars, hexArg, numArg, numRes, siteVars>>

NextHex == CallHexToRgb

SpecHex == InitHex /\ [][NextHex]_vars

\* An optional single leading '#' followed by exactly six hexadecimal digits
\* of either case, and nothing else.
WellFormed(s) ==
  \E h \in {0, 1} :
    /\ Len(s) = h + 6
    /\ h = 1 => s[1] = "#"
    /\ \A i \in (h + 1)..(h + 6) :
         s[i] \in {"0", "1", "2", "3", "4", "5", "6", "7", "8", "9",
                   "a", "b", "c", "d", "e", "f", "A", "B", "C", "D", "E", "F"}

\* s is a well-formed string with nothing but white space before and after it.
WellFormedInWhiteSpace(s) ==
  \E lo \in 1..(Len(s) + 1), hi \in 0..Len(s) :
    /\ \A k \in 1..(lo - 1) : s[k] \in {" ", "\t", "\n", "\r"}
    /\ \A k \in (hi + 1)..Len(s) : s[k] \in {" ", "\t", "\n", "\r"}
    /\ lo <= hi
    /\ WellFormed(SubSeq(s, lo, hi))

\* C1 as stated: hexToRgb accepts its argument exactly when the argument is an
\* optional single '#' followed by exactly six hexadecimal digits, any extra
\* character before or after them making it invalid.
C1_AsStated == returned => (~IsNull(hexRes) <=> WellFormed(hexArg))

\* C1, amended: hexToRgb accepts its argument exactly when the argument,
\* leading and trailing white space removed, is an optional single '#'
\* followed by exactly six hexadecimal digits of either case; every other
\* string yields null.
C1_AcceptedExactlyWhenWellFormedAfterTrim ==
  returned => (~IsNull(hexRes) <=> WellFormedInWhiteSpace(hexArg))

\* hexToRgb has returned a triplet for a string that starts with white space.
C1_AcceptedWithWhiteSpace ==
  returned /\ ~IsNull(hexRes) /\ hexArg # <<>> /\ hexArg[1] = " "

(***************************************************************************)
(* The intents and the CMYK pair called on their own                       *)
(***************************************************************************)
\* Number of entries of LList, of ABList and of LinList that are used.
NumL == 4
NumAB == 4
NumLin == 9
\* Number of entries of ByteList and of XYZList that are used.
NumBytes == 5
NumXYZ == 5

\* L, and a or b, of a Lab argument (units of 1/Scale).
LList == <<0, 1, 593176052, 1000000000, 777777777>>
ABList == <<0 - 1280000000, 0 - 283332577, 33, 216066249, 0>>

\* A channel of a linear RGB argument (units of 1/Fine): below 0, 0, about
\* the near-black threshold 1e-6 / 12.92, about 0.0031308, inside (0, 1), 1,
\* above 1.
LinList == <<0 - 100000000, 0, 77, 78, 3130800, 3130801, 500000000,
             1000000000, 1250000000, 214041000>>

\* A channel byte of a colour whose XYZ(D50) is an argument of xyzD50_to_lab;
\* "18" is the grey next to the breakpoint eps of f_lab.
ByteList == << <<"0", "0">>, <<"1", "8">>, <<"0", "1">>, <<"f", "f">>, <<"8", "0">>,
               <<"1", "9">> >>

\* Y of a grey on either side of eps = 216/24389 (units of 1/Scale).
GreyList == <<1, 853, 88563, 88564, 88565, 88566, 5000000>>

\* A component of an argument of the adaptations (units of 1/Scale): inside
\* the range of the whites, below 0, and 50.
XYZList == <<0, 9642200, 10888300, 0 - 5000000, 500000000, 2500000>>

FirstOf(list, n) == {list[i] : i \in 1..Min2(n, Len(list))}

\* XYZ(D50) arguments: of the colours with bytes of ByteList, and of greys.
XyzD50Args ==
  {hexToLabD50(p \o q \o r).XYZd50 :
     p \in FirstOf(ByteList, NumBytes), q \in FirstOf(ByteList, NumBytes),
     r \in FirstOf(ByteList, NumBytes)}
    \cup {<<Mul(GreyList[i], D50[1]), GreyList[i], Mul(GreyList[i], D50[3])>> :
            i \in 1..Len(GreyList)}

XYZArgs == FirstOf(XYZList, NumXYZ) \X FirstOf(XYZList, NumXYZ) \X FirstOf(XYZList, NumXYZ)

\* Lab arguments: the grid, and the base Lab of three colours.
LabArgs ==
  (FirstOf(LList, NumL) \X FirstOf(ABList, NumAB) \X FirstOf(ABList, NumAB))
    \cup {hexToLabD50(h).Lab : h \in {Seed, <<"0", "0", "0", "0", "0", "0">>,
                                      <<"#", "F", "F", "F", "F", "F", "F">>}}

LinArgs == FirstOf(LinList, NumLin) \X FirstOf(LinList, NumLin) \X FirstOf(LinList, NumLin)

InitNum ==
  /\ PageIdle
  /\ hexArg = <<>>
  /\ hexRes = null
  /\ numArg \in ([kind : {"Lab"}, v : LabArgs] \cup [kind : {"lin"}, v : LinArgs]
                   \cup [kind : {"xyzD50"}, v : XyzD50Args]
                   \cup [kind : {"XYZ"}, v : XYZArgs])
  /\ numRes = [op |-> "none"]
  /\ returned = FALSE
  /\ SiteIdle

\* entry.fn(Lab) for an entry of the intents table
CallIntentEntry ==
  /\ ~returned
  /\ numArg.kind = "Lab"
  /\ \E i \in 1..Len(intents) :
       numRes' = [op |-> intents[i].name, out |-> CallIntent(intents[i].fn, numArg.v)]
  /\ returned' = TRUE
  /\ UNCHANGED <<pageVars, hexArg, hexRes, numArg, siteVars>>

\* rgbLinear_to_cmyk(lin)
CallRgbLinearToCmyk ==
  /\ ~returned
  /\ numArg.kind = "lin"
  /\ numRes' = [op |-> "rgbLinear_to_cmyk", out |-> rgbLinear_to_cmyk(numArg.v)]
  /\ returned' = TRUE
  /\ UNCHANGED <<pageVars, hexArg, hexRes, numArg, siteVars>>

\* cmyk_to_rgb(cmyk) of the CMYK just returned
CallCmykToRgb ==
  /\ returned
  /\ numRes.op = "rgbLinear_to_cmyk"
  /\ numRes' = [op |-> "cmyk_to_rgb", out |-> cmyk_to_rgb(numRes.out)]
  /\ UNCHANGED <<pageVars, hexArg, hexRes, numArg, returned, siteVars>>

\* xyzD50_to_lab(XYZ)
CallXyzD50ToLab ==
  /\ ~returned
  /\ numArg.kind = "xyzD50"
  /\ numRes' = [op |-> "xyzD50_to_lab", out |-> xyzD50_to_lab(numArg.v)]
  /\ returned' = TRUE
  /\ UNCHANGED <<pageVars, hexArg, hexRes, numArg, siteVars>>

\* lab_to_xyzD50(Lab) of the Lab just returned
CallLabToXyzD50 ==
  /\ returned
  /\ numRes.op = "xyzD50_to_lab"
  /\ numRes' = [op |-> "lab_to_xyzD50", out |-> lab_to_xyzD50(numRes.out), lab |-> numRes.out]
  /\ UNCHANGED <<pageVars, hexArg, hexRes, numArg, returned, siteVars>>

\* adaptD65toD50(XYZ), of the argument or of what adaptD50toD65 just returned
CallAdaptD65toD50 ==
  /\ numArg.kind = "XYZ"
  /\ \/ /\ ~returned
        /\ numRes' = [op |-> "adaptD65toD50", out |-> adaptD65toD50(numArg.v)]
     \/ /\ returned
        /\ numRes.op = "adaptD50toD65"
        /\ numRes' = [op |-> "adaptD65toD50 of adaptD50toD65",
                      out |-> adaptD65toD50(numRes.out)]
  /\ returned' = TRUE
  /\ UNCHANGED <<pageVars, hexArg, hexRes, numArg, siteVars>>

\* adaptD50toD65(XYZ), of the argument or of what adaptD65toD50 just returned
CallAdaptD50toD65 ==
  /\ numArg.kind = "XYZ"
  /\ \/ /\ ~returned
        /\ numRes' = [op |-> "adaptD50toD65", out |-> adaptD50toD65(numArg.v)]
     \/ /\ returned
        /\ numRes.op = "adaptD65toD50"
        /\ numRes' = [op |-> "adaptD50toD65 of adaptD65toD50",
                      out |-> adaptD50toD65(numRes.out)]
  /\ returned' = TRUE
  /\ UNCHANGED <<pageVars, hexArg, hexRes, numArg, siteVars>>

NextNum ==
  \/ CallIntentEntry \/ CallRgbLinearToCmyk \/ CallCmykToRgb
  \/ CallXyzD50ToLab \/ CallLabToXyzD50
  \/ CallAdaptD65toD50 \/ CallAdaptD50toD65

SpecNum == InitNum /\ [][NextNum]_vars

\* C6: intent_naive returns a triplet equal to its argument, component for
\* component, for every Lab, the base Lab of a colour included.
C6_NaiveIsIdentity ==
  (returned /\ numRes.op = "Naive math")
    => /\ Len(numRes.out) = 3
       /\ \A k \in 1..3 : numRes.out[k] = numArg.v[k]

\* The Naive math entry has been applied to the base Lab of the seed colour.
C6_NaiveOnBaseLab ==
  /\ returned /\ numRes.op = "Naive math"
  /\ numArg.v = hexToLabD50(Seed).Lab
  /\ numRes.out # <<0, 0, 0>>

\* y is x * num / 100 + off rounded to the nearest unit: with
\* x = 100 * q + r, 100 * (y - off) - num * x = 100 * (y - off - num * q) - num * r.
IsAffine(y, x, num, off) ==
  LET q == x \div 100
      r == x % 100
      d == 100 * (y - off - num * q) - num * r
  IN (0 - 50) <= d /\ d <= 50

\* C7: the entry of each name applies the affine map of that name to every
\* Lab: Perceptual (0.96L+0.9, 0.96a, 0.93b), Saturation (0.96L+1.1, 1.09a,
\* 1.08b), Relative colorimetric (0.96L+0.9, 1.09a, 1.08b), Absolute
\* colorimetric (1.11L+0.2, 1.17a, 1.05b), to the nearest unit.
C7_IntentsAreTheAffineMaps ==
  (returned /\ numArg.kind = "Lab")
    => LET x == numArg.v
           y == numRes.out
       IN /\ numRes.op = "Perceptual"
               => /\ IsAffine(y[1], x[1], 96, 9000000)
                  /\ IsAffine(y[2], x[2], 96, 0)
                  /\ IsAffine(y[3], x[3], 93, 0)
          /\ numRes.op = "Saturation"
               => /\ IsAffine(y[1], x[1], 96, 11000000)
                  /\ IsAffine(y[2], x[2], 109, 0)
                  /\ IsAffine(y[3], x[3], 108, 0)
          /\ numRes.op = "Relative colorimetric"
               => /\ IsAffine(y[1], x[1], 96, 9000000)
                  /\ IsAffine(y[2], x[2], 109, 0)
                  /\ IsAffine(y[3], x[3], 108, 0)
          /\ numRes.op = "Absolute colorimetric"
               => /\ IsAffine(y[1], x[1], 111, 2000000)
                  /\ IsAffine(y[2], x[2], 117, 0)
                  /\ IsAffine(y[3], x[3], 105, 0)

\* The Saturation entry has been applied to a Lab with negative a and b.
C7_SaturationApplied ==
  /\ returned /\ numRes.op = "Saturation"
  /\ numArg.v[1] > 0 /\ numArg.v[2] < 0 /\ numArg.v[3] < 0

\* The clamped encoded channels of a linear RGB triplet, and the K they give.
Encoded(lin) == [k \in 1..3 |-> encodeChannel(lin[k])]
K0(lin) == Fine - Max2(Encoded(lin)[1], Max2(Encoded(lin)[2], Encoded(lin)[3]))

\* C8: whatever the triplet, C, M, Y and K of rgbLinear_to_cmyk lie in [0,1];
\* the result is exactly (0,0,0,1) when K = min(1-r, 1-g, 1-b) >= 1 - 1e-6,
\* and otherwise 1 - K > 0 and the result carries that K and finite quotients.
C8_CmykInRangeNoDivisionByZero ==
  (returned /\ numRes.op = "rgbLinear_to_cmyk")
    => LET c == numRes.out
       IN /\ c.C \in 0..Fine /\ c.M \in 0..Fine /\ c.Y \in 0..Fine /\ c.K \in 0..Fine
          /\ IF K0(numArg.v) >= Fine - 1000
             THEN c = [C |-> 0, M |-> 0, Y |-> 0, K |-> Fine]
             ELSE Fine - K0(numArg.v) > 0 /\ c.K = K0(numArg.v)

\* rgbLinear_to_cmyk has met a triplet just above the threshold, one channel
\* out of range on each side.
C8_NearBlackAndOutOfRange ==
  /\ returned /\ numRes.op = "rgbLinear_to_cmyk"
  /\ numArg.v = <<0 - 100000000, 78, 1250000000>>

\* The greatest distance between the channels of two triplets.
Apart(u, w) == Max2(Abs(u[1] - w[1]), Max2(Abs(u[2] - w[2]), Abs(u[3] - w[3])))

\* C9 as stated: cmyk_to_rgb(rgbLinear_to_cmyk(lin)) is the clamped encoded
\* triplet, for every lin (equal to the last digit carried, 1e-9).
C9_AsStated ==
  (returned /\ numRes.op = "cmyk_to_rgb")
    => Apart(numRes.out, Encoded(numArg.v)) <= 1

\* C9, amended: cmyk_to_rgb(rgbLinear_to_cmyk(lin)) is the clamped encoded
\* triplet when K < 1 - 1e-6; when K >= 1 - 1e-6 it is (0,0,0) and every
\* encoded channel is at most 1e-6.
C9_InverseExceptNearBlack ==
  (returned /\ numRes.op = "cmyk_to_rgb")
    => IF K0(numArg.v) < Fine - 1000
       THEN Apart(numRes.out, Encoded(numArg.v)) <= 1
       ELSE /\ numRes.out = <<0, 0, 0>>
            /\ \A k \in 1..3 : Encoded(numArg.v)[k] \in 0..1000

\* The round trip has been made for a near-black triplet that is not black,
\* and gave (0,0,0).
C9_NearBlackRoundTrip ==
  /\ returned /\ numRes.op = "cmyk_to_rgb"
  /\ numArg.v = <<77, 0, 77>>
  /\ numRes.out = <<0, 0, 0>>

\* fx, fy, fz as lab_to_xyzD50 recovers them from a Lab.
RecoveredF(Lab) ==
  LET fy == MulDiv(Lab[1] + 16 * Scale, 1, 116)
  IN <<fy + MulDiv(Lab[2], 1, 500), fy, fy - MulDiv(Lab[3], 1, 200)>>

\* C11: for every XYZ(D50) of a valid sRGB colour, lab_to_xyzD50 of
\* xyzD50_to_lab gives the triplet back (to within 1e-6, the arithmetic
\* being rounded), and on each component finv_lab takes its cubic branch
\* exactly when f_lab took its cube-root branch.
C11_LabRoundTrip ==
  (returned /\ numRes.op = "lab_to_xyzD50")
    => /\ Apart(numRes.out, numArg.v) <= 10
       /\ \A k \in 1..3 :
            LET t == Div(numArg.v[k], D50[k])
                f == RecoveredF(numRes.lab)[k]
            IN AboveEps(t) <=> AboveEps(Mul(Mul(f, f), f))

\* The round trip has been made for a dark colour with Y below eps, through
\* the two linear branches.
C11_LinearBranchRoundTrip ==
  /\ returned /\ numRes.op = "lab_to_xyzD50"
  /\ numArg.v[2] > 0 /\ ~AboveEps(numArg.v[2])
  /\ numRes.lab[1] > 0

\* C12 as stated: adaptD50toD65(adaptD65toD50(X)) and
\* adaptD65toD50(adaptD50toD65(X)) are within 1e-6 of X on each component,
\* for every triplet X.
C12_AsStated ==
  (returned /\ numRes.op \in {"adaptD50toD65 of adaptD65toD50",
                               "adaptD65toD50 of adaptD50toD65"})
    => Apart(numRes.out, numArg.v) <= 10

\* C12, amended: the two round trips are within 1e-6 of X on each component
\* for every triplet X whose components have a magnitude of at most 1.1.
C12_AdaptRoundTripInRange ==
  (/\ returned
   /\ numRes.op \in {"adaptD50toD65 of adaptD65toD50", "adaptD65toD50 of adaptD50toD65"}
   /\ \A k \in 1..3 : Abs(numArg.v[k]) <= 11000000)
    => Apart(numRes.out, numArg.v) <= 10

\* A triplet inside the range has gone from D65 to D50 and back, and did not
\* come back as it was.
C12_InRangeThereAndBack ==
  /\ returned /\ numRes.op = "adaptD50toD65 of adaptD65toD50"
  /\ numArg.v = <<9642200, 10888300, 9642200>>
  /\ numRes.out # numArg.v

\* C13: when one of #hexInput, #convertBtn, #intentTable tbody or #liveSwatch
\* is missing, the script does nothing: after DOMContentLoaded and whatever
\* the user does, no listener is registered, update has written nothing and
\* no exception was raised.
C13_NoOpWhenAnElementIsMissing ==
  (loaded /\ present # Elements)
    => /\ clickL = <<>>
       /\ keyL = <<>>
       /\ swatch = <<>>
       /\ rows = <<>>
       /\ ~thrown

(***************************************************************************)
(* The theme scripts: theme.js (a button module, a switch module and the    *)
(* button module once more) and the Theme module of core.js.  The variable  *)
(* theme is a record: script (the file the page includes), controls (which  *)
(* of #themeToggle and #themeSwitch the page has), started (the script has  *)
(* run), dataTheme (<html data-theme>), stored (localStorage 'theme'),      *)
(* stored0 (its value when the page was loaded), matches (the media query   *)
(* prefers-color-scheme: dark), ariaPressed and textContent (of the         *)
(* button), checked and ariaChecked (of the switch), clickLs, changeLs and  *)
(* mediaLs (the listeners, in the order of registration, named by the       *)
(* module that registered them), events (how many user and OS events were   *)
(* dispatched), last (the last of them) and userChose (the user has clicked *)
(* the button or changed the switch).                                       *)
(***************************************************************************)

\* getAttribute and getItem of something that is not there
unset == "unset"

Controls == {"themeToggle", "themeSwitch"}

\* String(b) of a boolean
String(b) == IF b THEN "true" ELSE "false"

\* media.matches ? 'dark' : 'light'
SystemTheme(t) == IF t.matches THEN "dark" ELSE "light"

\* a || b on values that are strings or absent
Or(a, b) == IF a # unset /\ a # "" THEN a ELSE b

\* now === 'dark' ? 'light' : 'dark'
Toggled(now) == IF now = "dark" THEN "light" ELSE "dark"

\* apply of the button module of theme.js: it always writes localStorage
applyButton(t, mode) ==
  IF mode # unset /\ mode # ""
  THEN [t EXCEPT !.dataTheme = mode,
                 !.stored = mode,
                 !.ariaPressed = String(mode = "dark"),
                 !.textContent = IF mode = "dark" THEN "sun" ELSE "moon"]
  ELSE [t EXCEPT !.dataTheme = unset,
                 !.stored = unset,
                 !.ariaPressed = "false",
                 !.textContent = "moon"]

\* apply of the switch module of theme.js
applySwitch(t, mode, persist) ==
  IF mode = "dark"
  THEN [t EXCEPT !.dataTheme = "dark", !.checked = TRUE, !.ariaChecked = "true",
                 !.stored = IF persist THEN "dark" ELSE @]
  ELSE IF mode = "light"
  THEN [t EXCEPT !.dataTheme = "light", !.checked = FALSE, !.ariaChecked = "false",
                 !.stored = IF persist THEN "light" ELSE @]
  ELSE [t EXCEPT !.dataTheme = unset, !.checked = t.matches,
                 !.ariaChecked = String(t.matches),
                 !.stored = IF persist THEN unset ELSE @]

\* syncControls of core.js, reading the preference of the OS only
syncControlsFromSystem(t) ==
  LET effective == SystemTheme(t)
      t1 == IF "themeToggle" \in t.controls
            THEN [t EXCEPT !.ariaPressed = String(effective = "dark"),
                           !.textContent = IF effective = "dark" THEN "sun" ELSE "moon"]
            ELSE t
  IN  IF "themeSwitch" \in t.controls
      THEN [t1 EXCEPT !.checked = (effective = "dark"),
                      !.ariaChecked = String(effective = "dark")]
      ELSE t1

\* syncControls of core.js
syncControls(t) ==
  LET effective == Or(t.stored, SystemTheme(t))
      t1 == IF "themeToggle" \in t.controls
            THEN [t EXCEPT !.ariaPressed = String(effective = "dark"),
                           !.textContent = IF effective = "dark" THEN "sun" ELSE "moon"]
            ELSE t
  IN  IF "themeSwitch" \in t.controls
      THEN [t1 EXCEPT !.checked = (effective = "dark"),
                      !.ariaChecked = String(effective = "dark")]
      ELSE t1

\* apply of the Theme module of core.js
applyTheme(t, mode, persist) ==
  syncControls(
    IF mode = "dark" \/ mode = "light"
    THEN [t EXCEPT !.dataTheme = mode, !.stored = IF persist THEN mode ELSE @]
    ELSE [t EXCEPT !.dataTheme = unset, !.stored = IF persist THEN unset ELSE @])

\* The listener a module registered, run on the event of kind ev.
Listener(ev, module, t) ==
  IF ev = "click"
  THEN IF module = "button"
       THEN applyButton(t, Toggled(Or(t.dataTheme, "light")))
       ELSE applyTheme(t, Toggled(Or(t.dataTheme, SystemTheme(t))), TRUE)
  ELSE IF ev = "change"
  THEN IF module = "switch"
       THEN applySwitch(t, IF t.checked THEN "dark" ELSE "light", TRUE)
       ELSE applyTheme(t, IF t.checked THEN "dark" ELSE "light", TRUE)
  ELSE IF Or(t.stored, unset) # unset
  THEN t
  ELSE IF module = "button"
  THEN applyButton(t, SystemTheme(t))
  ELSE IF module = "switch"
  THEN applySwitch(t, SystemTheme(t), FALSE)
  ELSE applyTheme(t, SystemTheme(t), FALSE)

\* The listeners registered for the events of kind ev.
ListenersOf(ev, t) ==
  IF ev = "click" THEN t.clickLs ELSE IF ev = "change" THEN t.changeLs ELSE t.mediaLs

\* The first n listeners of the event run one after the other, in the order
\* of their registration.
RECURSIVE Dispatch(_, _, _, _)
Dispatch(ev, ls, n, t) ==
  IF n = 0 THEN t ELSE Listener(ev, ls[n], Dispatch(ev, ls, n - 1, t))

\* The button module of theme.js (it is in the file twice)
buttonModule(t) ==
  IF "themeToggle" \notin t.controls
  THEN t
  ELSE [applyButton(t, Or(t.stored, SystemTheme(t)))
          EXCEPT !.clickLs = Append(@, "button"), !.mediaLs = Append(@, "button")]

\* The switch module of theme.js
switchModule(t) ==
  IF "themeSwitch" \notin t.controls
  THEN t
  ELSE [applySwitch(t, Or(t.stored, SystemTheme(t)), FALSE)
          EXCEPT !.changeLs = Append(@, "switch"), !.mediaLs = Append(@, "switch")]

\* theme.js as a whole
themeJs(t) == buttonModule(switchModule(buttonModule(t)))

\* Theme.init of core.js
init(t) ==
  LET t1 == applyTheme(t, Or(t.stored, SystemTheme(t)), FALSE)
  IN  [t1 EXCEPT !.clickLs = IF "themeToggle" \in t.controls THEN Append(@, "Theme") ELSE @,
                 !.changeLs = IF "themeSwitch" \in t.controls THEN Append(@, "Theme") ELSE @,
                 !.mediaLs = Append(@, "Theme")]

\* The user and OS events of one run
MaxEvents == 3

\* What localStorage 'theme' may hold when the page is loaded
StoredValues == {unset, "dark", "light", "auto"}

InitTheme ==
  /\ PageIdle
  /\ hexArg = <<>>
  /\ hexRes = null
  /\ numArg = <<>>
  /\ numRes = [op |-> "none"]
  /\ returned = FALSE
  /\ toc = [script |-> "none"]
  /\ \E script \in {"theme.js", "core.js"}, controls \in SUBSET Controls,
        stored \in StoredValues, matches \in BOOLEAN :
       theme = [script |-> script, controls |-> controls, started |-> FALSE,
                dataTheme |-> unset, stored |-> stored, stored0 |-> stored,
                matches |-> matches,
                ariaPressed |-> unset, textContent |-> "",
                checked |-> FALSE, ariaChecked |-> unset,
                clickLs |-> <<>>, changeLs |-> <<>>, mediaLs |-> <<>>,
                events |-> 0, last |-> "none", userChose |-> FALSE]

\* The script of the page runs.
RunThemeScript ==
  /\ ~theme.started
  /\ theme' = [(IF theme.script = "theme.js" THEN themeJs(theme) ELSE init(theme))
                 EXCEPT !.started = TRUE]
  /\ UNCHANGED <<pageVars, callVars, toc>>

\* The event ev has happened on the page in state t.
After(ev, t) ==
  [Dispatch(ev, ListenersOf(ev, t), Len(ListenersOf(ev, t)), t)
     EXCEPT !.events = @ + 1, !.last = ev,
            !.userChose = @ \/ ev \in {"click", "change"}]

\* The user clicks #themeToggle.
ClickToggle ==
  /\ theme.started /\ theme.events < MaxEvents
  /\ "themeToggle" \in theme.controls
  /\ theme' = After("click", theme)
  /\ UNCHANGED <<pageVars, callVars, toc>>

\* The user flips #themeSwitch: the browser changes checked, then dispatches
\* change.
ChangeSwitch ==
  /\ theme.started /\ theme.events < MaxEvents
  /\ "themeSwitch" \in theme.controls
  /\ theme' = After("change", [theme EXCEPT !.checked = ~@])
  /\ UNCHANGED <<pageVars, callVars, toc>>

\* The OS changes between light and dark: the media query changes, then
\* dispatches change.
OsChange ==
  /\ theme.started /\ theme.events < MaxEvents
  /\ theme' = After("os", [theme EXCEPT !.matches = ~@])
  /\ UNCHANGED <<pageVars, callVars, toc>>

NextTheme == RunThemeScript \/ ClickToggle \/ ChangeSwitch \/ OsChange

SpecTheme == InitTheme /\ [][NextTheme]_vars

\* C14: on a page of theme.js, after a click on #themeToggle was handled by
\* every click listener registered for it, data-theme is the opposite of
\* what it was before the click (light after dark, dark after anything
\* else), localStorage 'theme' holds the new value, aria-pressed is its
\* darkness and the icon is the one of the new value.
C14_ClickToggles ==
  [][(/\ theme.script = "theme.js" /\ theme.started
      /\ "themeToggle" \in theme.controls
      /\ theme'.events = theme.events + 1 /\ theme'.last = "click")
       => /\ theme'.dataTheme = Toggled(theme.dataTheme)
          /\ theme'.stored = theme'.dataTheme
          /\ theme'.ariaPressed = String(theme'.dataTheme = "dark")
          /\ theme'.textContent = (IF theme'.dataTheme = "dark" THEN "sun" ELSE "moon")]_vars

\* C15: in each theme script that has registered a listener for the changes
\* of the OS preference: on a page loaded with no stored theme, an OS change
\* that comes before the first click or switch change sets data-theme to the
\* new value of the OS and leaves localStorage 'theme' unset; an OS change
\* that comes after the user clicked the button or changed the switch alters
\* neither data-theme nor the stored value.
C15_FollowsOsUntilUserChooses ==
  [][(/\ theme.started /\ theme.mediaLs # <<>>
      /\ theme'.events = theme.events + 1 /\ theme'.last = "os")
       => /\ (theme.stored0 = unset /\ ~theme.userChose)
               => /\ theme'.dataTheme = SystemTheme(theme')
                  /\ theme'.stored = unset
          /\ theme.userChose
               => /\ theme'.dataTheme = theme.dataTheme
                  /\ theme'.stored = theme.stored]_vars

\* C16: on a page of core.js whose localStorage 'theme' was unset, 'dark' or
\* 'light' at load, in every state after Theme.init, whatever clicks, switch
\* changes and OS changes came since, data-theme is 'dark' or 'light', and
\* aria-pressed of the button and checked and aria-checked of the switch
\* (of those the page has) all say whether data-theme is 'dark'.
C16_ControlsInSync ==
  (/\ theme.script = "core.js" /\ theme.started
   /\ theme.stored0 \in {unset, "dark", "light"})
    => /\ theme.dataTheme \in {"dark", "light"}
       /\ "themeToggle" \in theme.controls
            => theme.ariaPressed = String(theme.dataTheme = "dark")
       /\ "themeSwitch" \in theme.controls
            => /\ theme.checked = (theme.dataTheme = "dark")
               /\ theme.ariaChecked = String(theme.dataTheme = "dark")

\* A page of core.js with both controls, loaded with nothing stored: after
\* three events, the last of them an OS change, the user's dark theme stands
\* against a light OS and the switch is checked.
C16_ChosenAgainstSystem ==
  /\ theme.script = "core.js" /\ theme.started
  /\ theme.controls = Controls
  /\ theme.stored0 = unset
  /\ theme.events = 3 /\ theme.last = "os" /\ theme.userChose
  /\ ~theme.matches
  /\ theme.dataTheme = "dark" /\ theme.stored = "dark"
  /\ theme.checked

(***************************************************************************)
(* The ids of the headings: ensureIds of the TOC module of core.js, and the *)
(* same loop in nav.js.  The variable toc is a record: scripts (the files   *)
(* the page includes), main (the page has a <main>), doc (the elements of   *)
(* the document in document order, each with h2 (it is an h2 of a section   *)
(* of main), id and text, strings being sequences of characters), doc0 (the *)
(* document as it was loaded) and ran (the scripts that have run).          *)
(***************************************************************************)

UpperLetters ==
  <<"A", "B", "C", "D", "E", "F", "G", "H", "I", "J", "K", "L", "M",
    "N", "O", "P", "Q", "R", "S", "T", "U", "V", "W", "X", "Y", "Z">>
LowerLetters ==
  <<"a", "b", "c", "d", "e", "f", "g", "h", "i", "j", "k", "l", "m",
    "n", "o", "p", "q", "r", "s", "t", "u", "v", "w", "x", "y", "z">>

\* String.prototype.toLowerCase
toLowerCase(str) ==
  [k \in 1..Len(str) |->
     IF \E d \in 1..26 : str[k] = UpperLetters[d]
     THEN LowerLetters[CHOOSE d \in 1..26 : str[k] = UpperLetters[d]]
     ELSE str[k]]

\* [\w\s-]
IsSlugChar(ch) ==
  \/ \E d \in 1..26 : ch = UpperLetters[d] \/ ch = LowerLetters[d]
  \/ \E d \in 1..10 : ch = HexChars[d]
  \/ ch = "_"
  \/ ch \in WhiteSpace
  \/ ch = "-"

\* .replace(/[^\w\s-]/g, '')
RECURSIVE RemoveOthers(_)
RemoveOthers(str) ==
  IF str = <<>> THEN <<>>
  ELSE (IF IsSlugChar(Head(str)) THEN <<Head(str)>> ELSE <<>>) \o RemoveOthers(Tail(str))

\* .replace(/\s+/g, '-')
RECURSIVE Hyphenate(_)
Hyphenate(str) ==
  IF str = <<>> THEN <<>>
  ELSE IF Head(str) \in WhiteSpace THEN <<"-">> \o Hyphenate(TrimStart(str))
  ELSE <<Head(str)>> \o Hyphenate(Tail(str))

slugify(str) == Hyphenate(Trim(RemoveOthers(toLowerCase(str))))

\* document.getElementById(id), as the loop tests it: an element was found.
\* No element is found for the empty string.
getElementById(doc, id) ==
  id # <<>> /\ \E k \in 1..Len(doc) : doc[k].id = id

\* let id = base, i = 2; while (document.getElementById(id)) id = `${base}-${i++}`
RECURSIVE whileTaken(_, _, _, _)
whileTaken(doc, base, id, i) ==
  IF getElementById(doc, id)
  THEN whileTaken(doc, base, base \o <<"-">> \o Digits(i), i + 1)
  ELSE id

\* The callback of headings.forEach, on the k-th element of the document
ensureId(doc, k) ==
  IF doc[k].h2 /\ doc[k].id = <<>>
  THEN [doc EXCEPT ![k].id = whileTaken(doc, slugify(doc[k].text), slugify(doc[k].text), 2)]
  ELSE doc

\* headings.forEach, in document order, over the first n elements
RECURSIVE forEachHeading(_, _)
forEachHeading(doc, n) ==
  IF n = 0 THEN doc ELSE ensureId(forEachHeading(doc, n - 1), n)

ensureIds(doc) == forEachHeading(doc, Len(doc))

\* The elements a document is made of: headings without id, a heading with
\* an id, and other elements whose ids are slugs of those headings.
ElementList ==
  << [h2 |-> TRUE,  id |-> <<>>, text |-> <<"A", " ", "b">>],
     [h2 |-> TRUE,  id |-> <<>>, text |-> <<"a", " ", "\t", "b", "!">>],
     [h2 |-> FALSE, id |-> <<"a", "-", "b", "-", "2">>, text |-> <<>>],
     [h2 |-> TRUE,  id |-> <<>>, text |-> <<"!", "?">>],
     [h2 |-> TRUE,  id |-> <<"a", "-", "b">>, text |-> <<"C">>],
     [h2 |-> TRUE,  id |-> <<>>, text |-> <<" ", "-", "A", "_", "1", " ">>],
     [h2 |-> FALSE, id |-> <<"a", "-", "b">>, text |-> <<>>],
     [h2 |-> TRUE,  id |-> <<>>, text |-> <<>>] >>

\* How many of them are used, and how long a document is
NumElements == 7
MaxDoc == 3

RECURSIVE Documents(_)
Documents(n) ==
  IF n = 0 THEN {<<>>}
  ELSE Documents(n - 1)
         \cup {Append(d, e) : d \in {d \in Documents(n - 1) : Len(d) = n - 1},
                              e \in FirstOf(ElementList, NumElements)}

InitToc ==
  /\ PageIdle
  /\ hexArg = <<>>
  /\ hexRes = null
  /\ numArg = <<>>
  /\ numRes = [op |-> "none"]
  /\ returned = FALSE
  /\ theme = [script |-> "none"]
  /\ \E scripts \in (SUBSET {"nav.js", "core.js"}) \ {{}}, main \in BOOLEAN,
        doc \in Documents(MaxDoc) :
       toc = [scripts |-> scripts, main |-> main, doc |-> doc, doc0 |-> doc,
              ran |-> {}]

\* nav.js runs: nothing without <main>, else the ids of the headings
RunNavJs ==
  /\ "nav.js" \in toc.scripts \ toc.ran
  /\ toc' = [toc EXCEPT !.ran = @ \cup {"nav.js"},
                        !.doc = IF toc.main THEN ensureIds(@) ELSE @]
  /\ UNCHANGED <<pageVars, callVars, theme>>

\* TOC.init of core.js runs: nothing without <main>, else ensureIds
RunTocInit ==
  /\ "core.js" \in toc.scripts \ toc.ran
  /\ toc' = [toc EXCEPT !.ran = @ \cup {"core.js"},
                        !.doc = IF toc.main THEN ensureIds(@) ELSE @]
  /\ UNCHANGED <<pageVars, callVars, theme>>

NextToc == RunNavJs \/ RunTocInit

SpecToc == InitToc /\ [][NextToc]_vars

\* C17: after ensureIds has run on a page with <main>, every heading that
\* had an id has kept it, every heading that had none has a non-empty id
\* that no other element of the document carries, so every section h2 has
\* an id and the ids assigned are pairwise distinct.
C17_EveryHeadingGetsItsOwnId ==
  (toc.ran # {} /\ toc.main)
    => \A k \in 1..Len(toc.doc) :
         /\ toc.doc0[k].id # <<>> => toc.doc[k].id = toc.doc0[k].id
         /\ (toc.doc[k].h2 /\ toc.doc0[k].id = <<>>)
              => /\ toc.doc[k].id # <<>>
                 /\ \A j \in 1..Len(toc.doc) : j # k => toc.doc[j].id # toc.doc[k].id
====
